---- MODULE Spec2Model ----
(***************************************************************************)
(* A model of the blockchain node of src/src/lib.rs and src/src/p2p.rs:    *)
(* block hashing and proof of work, chain extension and fork choice, and   *)
(* the handling of gossip messages and of the operator's `create b`.       *)
(*                                                                         *)
(* Strings are sequences of one-character strings, so that hex encoding,   *)
(* hex decoding and the binary representation are computed character by    *)
(* character as the code computes them.  u64 identifiers are scaled to     *)
(* IdBits bits and wrap as u64 arithmetic does without overflow checks.    *)
(* SHA-256 is abstracted by a deterministic three-byte digest.             *)
(***************************************************************************)
EXTENDS Integers, Sequences, FiniteSets, TLC

(***************************************************************************)
(* Bounds of the model.                                                    *)
(***************************************************************************)
IdBits == 3
MaxNonce == 2
MaxTime == 0
MaxChain == 3
MaxRemote == 3
MaxQueue == 1

U64Max == 2 ^ IdBits - 1
Nonces == 0 .. MaxNonce
Times == 0 .. MaxTime

(***************************************************************************)
(* Characters, hex and binary text.                                        *)
(***************************************************************************)
HexLower == <<"0", "1", "2", "3", "4", "5", "6", "7",
              "8", "9", "a", "b", "c", "d", "e", "f">>
HexUpper == <<"0", "1", "2", "3", "4", "5", "6", "7",
              "8", "9", "A", "B", "C", "D", "E", "F">>

\* hex::decode's value of one character: upper and lower case, else invalid.
HexVal(c) ==
    CASE c = "0" -> 0 [] c = "1" -> 1 [] c = "2" -> 2 [] c = "3" -> 3
      [] c = "4" -> 4 [] c = "5" -> 5 [] c = "6" -> 6 [] c = "7" -> 7
      [] c = "8" -> 8 [] c = "9" -> 9
      [] c = "a" -> 10 [] c = "b" -> 11 [] c = "c" -> 12
      [] c = "d" -> 13 [] c = "e" -> 14 [] c = "f" -> 15
      [] c = "A" -> 10 [] c = "B" -> 11 [] c = "C" -> 12
      [] c = "D" -> 13 [] c = "E" -> 14 [] c = "F" -> 15
      [] OTHER -> -1

\* A number for a character, for the digest below.
CharCode(c) ==
    CASE c = "0" -> 0 [] c = "1" -> 1 [] c = "2" -> 2 [] c = "3" -> 3
      [] c = "4" -> 4 [] c = "5" -> 5 [] c = "6" -> 6 [] c = "7" -> 7
      [] c = "8" -> 8 [] c = "9" -> 9
      [] c = "a" -> 10 [] c = "b" -> 11 [] c = "c" -> 12
      [] c = "d" -> 13 [] c = "e" -> 14 [] c = "f" -> 15
      [] c = "A" -> 16 [] c = "B" -> 17 [] c = "C" -> 18
      [] c = "D" -> 19 [] c = "E" -> 20 [] c = "F" -> 21
      [] c = "g" -> 22 [] c = "n" -> 23 [] c = "s" -> 24 [] c = "i" -> 25
      [] c = "!" -> 26 [] c = "z" -> 27 [] c = " " -> 28 [] OTHER -> 29

\* A number for a text, for the digest below.
StrSum(s) ==
    LET sum[i \in 0 .. Len(s)] ==
            IF i = 0 THEN 0 ELSE (CharCode(s[i]) + 3 * sum[i - 1]) % 64
    IN  sum[Len(s)]

\* hex::encode: two lower-case digits per byte.
HexEncode(bytes) ==
    [i \in 1 .. 2 * Len(bytes) |->
        IF i % 2 = 1 THEN HexLower[(bytes[(i + 1) \div 2] \div 16) + 1]
        ELSE HexLower[(bytes[i \div 2] % 16) + 1]]

HexDecodeBytes(s) ==
    [i \in 1 .. Len(s) \div 2 |-> 16 * HexVal(s[2 * i - 1]) + HexVal(s[2 * i])]

\* hex::decode: Err on an odd length or on a character that is no hex digit.
HexDecode(s) ==
    IF Len(s) % 2 = 1 \/ \E i \in 1 .. Len(s) : HexVal(s[i]) < 0
    THEN [ok |-> FALSE, bytes |-> <<>>]
    ELSE [ok |-> TRUE, bytes |-> HexDecodeBytes(s)]

\* format!("{:b}", c): the binary digits of c without leading zeros.
FormatBinary(c) ==
    LET digits[n \in 0 .. c] ==
            IF n < 2 THEN <<IF n = 0 THEN "0" ELSE "1">>
            ELSE digits[n \div 2] \o <<IF n % 2 = 0 THEN "0" ELSE "1">>
    IN  digits[c]

hash_to_binary_representation(hash) ==
    LET res[i \in 0 .. Len(hash)] ==
            IF i = 0 THEN <<>> ELSE res[i - 1] \o FormatBinary(hash[i])
    IN  res[Len(hash)]

starts_with(s, prefix) ==
    Len(s) >= Len(prefix) /\ SubSeq(s, 1, Len(prefix)) = prefix

DIFFICULTY_PREFIX == <<"0", "0">>

(***************************************************************************)
(* Blocks and their content hash.                                          *)
(***************************************************************************)
BlockFields == {"id", "timestamp", "nonce", "hash", "previous_hash", "data"}

Block(id, timestamp, nonce, hash, previous_hash, data) ==
    [id |-> id, timestamp |-> timestamp, nonce |-> nonce, hash |-> hash,
     previous_hash |-> previous_hash, data |-> data]

\* The digest of the five serialized fields.  A deterministic stand-in for
\* SHA-256: three bytes, the last one carrying the mixed fields.
DigestMix(id, timestamp, previous_hash, data, nonce) ==
    (7 * id + 3 * timestamp + 5 * StrSum(previous_hash) + 11 * StrSum(data)
     + 13 * nonce + 2) % 256

calculate_hash(id, timestamp, previous_hash, data, nonce) ==
    LET h == DigestMix(id, timestamp, previous_hash, data, nonce)
    IN  <<IF h % 4 = 3 THEN 63 ELSE 0, IF h % 4 = 2 THEN 1 ELSE 0, h>>

BlockHash(b) == calculate_hash(b.id, b.timestamp, b.previous_hash, b.data, b.nonce)

\* self.id + 1 on u64.
IdPlusOne(id) == (id + 1) % (U64Max + 1)

(***************************************************************************)
(* Proof of work and chain extension (src/src/lib.rs).                     *)
(***************************************************************************)
\* The test of mine_block's loop on one nonce.
NonceSolves(id, timestamp, previous_hash, data, nonce) ==
    starts_with(hash_to_binary_representation(
                    calculate_hash(id, timestamp, previous_hash, data, nonce)),
                DIFFICULTY_PREFIX)

\* mine_block without the loop: the first nonce is returned as it is.
mine_block_FirstNonce(id, timestamp, previous_hash, data) ==
    {[nonce |-> 0,
      hash |-> HexEncode(calculate_hash(id, timestamp, previous_hash, data, 0))]}

\* mine_block: nonce 0 is tried first, then random nonces until one solves.
\* The set of (nonce, hash) pairs the loop can return.
mine_block(id, timestamp, previous_hash, data) ==
    LET solving == IF NonceSolves(id, timestamp, previous_hash, data, 0)
                   THEN {0}
                   ELSE {n \in Nonces :
                            NonceSolves(id, timestamp, previous_hash, data, n)}
    IN  {[nonce |-> n,
          hash |-> HexEncode(calculate_hash(id, timestamp, previous_hash, data, n))] :
            n \in solving}

\* Block::new at clock reading `timestamp`: the blocks it can return.
BlockNew(id, previous_hash, data, timestamp) ==
    {Block(id, timestamp, m.nonce, m.hash, previous_hash, data) :
        m \in mine_block(id, timestamp, previous_hash, data)}

mine_next_block(self, data, timestamp) ==
    BlockNew(IdPlusOne(self.id), self.hash, data, timestamp)

\* can_extend_to without the difficulty test.
can_extend_to_NoDifficulty(self, next_block) ==
    IF next_block.id # IdPlusOne(self.id) THEN FALSE
    ELSE IF next_block.previous_hash # self.hash THEN FALSE
    ELSE LET decoded_hash == HexDecode(next_block.hash)
         IN  IF decoded_hash.ok
             THEN HexEncode(BlockHash(next_block)) = next_block.hash
             ELSE FALSE

can_extend_to(self, next_block) ==
    IF next_block.id # IdPlusOne(self.id) THEN FALSE
    ELSE IF next_block.previous_hash # self.hash THEN FALSE
    ELSE LET decoded_hash == HexDecode(next_block.hash)
         IN  IF decoded_hash.ok
             THEN IF ~starts_with(hash_to_binary_representation(decoded_hash.bytes),
                                  DIFFICULTY_PREFIX)
                  THEN FALSE
                  ELSE HexEncode(BlockHash(next_block)) = next_block.hash
             ELSE FALSE

GenesisNonce == 2836
GenesisHash == <<"0", "0", "0", "0", "f", "8">>
GenesisPreviousHash == <<"g", "e", "n", "e", "s", "i", "s">>
GenesisData == <<"g", "e", "n", "e", "s", "i", "s", "!">>

\* App::new and App::genesis at clock reading `timestamp`.
genesis(timestamp) ==
    Block(0, timestamp, GenesisNonce, GenesisHash, GenesisPreviousHash, GenesisData)

Last(s) == s[Len(s)]

\* try_add_block without the validation.
try_add_block_Unchecked(chain, block) ==
    [result |-> "Ok", blocks |-> Append(chain, block)]

\* try_add_block that reports the error and pushes the block all the same.
try_add_block_ErrAppends(chain, block) ==
    IF can_extend_to(Last(chain), block)
    THEN [result |-> "Ok", blocks |-> Append(chain, block)]
    ELSE [result |-> "Err", blocks |-> Append(chain, block)]

\* App::try_add_block: the result and the chain afterwards.
try_add_block(chain, block) ==
    IF can_extend_to(Last(chain), block)
    THEN [result |-> "Ok", blocks |-> Append(chain, block)]
    ELSE [result |-> "Err", blocks |-> chain]

\* is_chain_valid with the first block checked too: its hash must be
\* hexadecimal that meets the difficulty.
is_chain_valid_FirstChecked(chain) ==
    /\ \A i \in 2 .. Len(chain) : can_extend_to(chain[i - 1], chain[i])
    /\ chain # <<>> =>
         /\ HexDecode(chain[1].hash).ok
         /\ starts_with(hash_to_binary_representation(HexDecode(chain[1].hash).bytes),
                        DIFFICULTY_PREFIX)

is_chain_valid(chain) ==
    \A i \in 2 .. Len(chain) : can_extend_to(chain[i - 1], chain[i])

\* choose_chain with the length comparison made strict: a tie goes to remote.
choose_chain_RemoteOnTie(local, remote) ==
    LET is_local_valid == is_chain_valid(local)
        is_remote_valid == is_chain_valid(remote)
    IN  IF is_local_valid /\ is_remote_valid
        THEN IF Len(local) > Len(remote)
             THEN [panic |-> FALSE, chain |-> local]
             ELSE [panic |-> FALSE, chain |-> remote]
        ELSE IF ~is_local_valid /\ ~is_remote_valid
        THEN [panic |-> TRUE, chain |-> <<>>]
        ELSE IF is_local_valid
        THEN [panic |-> FALSE, chain |-> local]
        ELSE [panic |-> FALSE, chain |-> remote]

\* choose_chain without the length comparison: of two valid chains, remote.
choose_chain_PrefersRemote(local, remote) ==
    LET is_local_valid == is_chain_valid(local)
        is_remote_valid == is_chain_valid(remote)
    IN  IF ~is_local_valid /\ ~is_remote_valid
        THEN [panic |-> TRUE, chain |-> <<>>]
        ELSE IF is_remote_valid
        THEN [panic |-> FALSE, chain |-> remote]
        ELSE [panic |-> FALSE, chain |-> local]

\* choose_chain without the validation: the longer chain, local on a tie.
choose_chain_LongerWins(local, remote) ==
    IF Len(local) >= Len(remote)
    THEN [panic |-> FALSE, chain |-> local]
    ELSE [panic |-> FALSE, chain |-> remote]

\* choose_chain with the comparison turned round: of two valid chains the
\* shorter, remote on a tie.
choose_chain_ShorterWins(local, remote) ==
    LET is_local_valid == is_chain_valid(local)
        is_remote_valid == is_chain_valid(remote)
    IN  IF is_local_valid /\ is_remote_valid
        THEN IF Len(local) < Len(remote)
             THEN [panic |-> FALSE, chain |-> local]
             ELSE [panic |-> FALSE, chain |-> remote]
        ELSE IF ~is_local_valid /\ ~is_remote_valid
        THEN [panic |-> TRUE, chain |-> <<>>]
        ELSE IF is_local_valid
        THEN [panic |-> FALSE, chain |-> local]
        ELSE [panic |-> FALSE, chain |-> remote]

\* App::choose_chain: the chain returned, or the panic.
choose_chain(local, remote) ==
    LET is_local_valid == is_chain_valid(local)
        is_remote_valid == is_chain_valid(remote)
    IN  IF is_local_valid /\ is_remote_valid
        THEN IF Len(local) >= Len(remote)
             THEN [panic |-> FALSE, chain |-> local]
             ELSE [panic |-> FALSE, chain |-> remote]
        ELSE IF ~is_local_valid /\ ~is_remote_valid
        THEN [panic |-> TRUE, chain |-> <<>>]
        ELSE IF is_local_valid
        THEN [panic |-> FALSE, chain |-> local]
        ELSE [panic |-> FALSE, chain |-> remote]

(***************************************************************************)
(* The wire format (src/src/p2p.rs): a JSON object is a record; serde      *)
(* decodes a struct from any object that has the struct's fields with      *)
(* values of their types, and ignores the other fields.                    *)
(***************************************************************************)
PEER_ID == "n1"
CHAIN_TOPIC == "chains"
BLOCK_TOPIC == "blocks"

IsBlockJson(d) ==
    /\ BlockFields \subseteq DOMAIN d
    /\ d.id \in 0 .. U64Max
    /\ d.nonce >= 0

DecodeBlock(d) == [f \in BlockFields |-> d[f]]

IsChainResponseJson(d) ==
    /\ {"blocks", "receiver"} \subseteq DOMAIN d
    /\ \A i \in 1 .. Len(d.blocks) : IsBlockJson(d.blocks[i])

DecodeChainResponse(d) ==
    [blocks |-> [i \in 1 .. Len(d.blocks) |-> DecodeBlock(d.blocks[i])],
     receiver |-> d.receiver]

IsLocalChainRequestJson(d) == "from_peer_id" \in DOMAIN d

\* serde_json::to_string of the three kinds.
ChainResponseJson(blocks, receiver) == [blocks |-> blocks, receiver |-> receiver]
LocalChainRequestJson(from_peer_id) == [from_peer_id |-> from_peer_id]
BlockJson(block) == block

(***************************************************************************)
(* The inputs: what peers and the operator can send.                       *)
(***************************************************************************)
Payload == <<" ", "a">>
OtherPayload == <<"b">>
CreatePrefix == <<"c", "r", "e", "a", "t", "e", " ", "b">>
Commands == {CreatePrefix \o Payload, <<"l", "s", " ", "c">>}

BogusHash == <<"a", "b">>

ToUpper(c) == IF HexVal(c) >= 10 THEN HexUpper[HexVal(c) + 1] ELSE c
UpperCase(s) == [i \in 1 .. Len(s) |-> ToUpper(s[i])]

\* A block with the content hash of its fields.
Sealed(id, timestamp, nonce, previous_hash, data) ==
    Block(id, timestamp, nonce,
          HexEncode(calculate_hash(id, timestamp, previous_hash, data, nonce)),
          previous_hash, data)

\* The block a peer mines on `prev` for its chain.
PeerMined(prev) == mine_next_block(prev, Payload, 0)

\* Blocks a peer can send to extend `prev`: sealed ones (right or wrong id,
\* right or wrong link, solving nonce or not), and ones whose hash text or
\* fields were changed after sealing.
Candidates(prev) ==
    LET sealed == {Sealed(i, 0, n, ph, Payload) :
                      i \in {IdPlusOne(prev.id), prev.id}, n \in Nonces,
                      ph \in {prev.hash, BogusHash}}
        mined == PeerMined(prev)
    IN  sealed
        \cup {[b EXCEPT !.hash = UpperCase(b.hash)] : b \in mined}
        \cup {[b EXCEPT !.hash = Tail(b.hash)] : b \in mined}
        \cup {[b EXCEPT !.hash = <<"z", "z">> \o b.hash] : b \in mined}
        \cup {[b EXCEPT !.nonce = b.nonce + 4] : b \in mined}
        \cup {[b EXCEPT !.timestamp = b.timestamp + 1] : b \in mined}
        \cup {[b EXCEPT !.data = OtherPayload] : b \in mined}

\* The first blocks of the chains peers send: a genesis block, and blocks
\* that are no genesis block, one of them two steps before the last id.
ForeignFirst == {Sealed(U64Max - 1, 0, 0, GenesisPreviousHash, Payload)}
FirstBlocks == {genesis(0)} \cup ForeignFirst

\* A block that does not extend `prev`.
PeerForged(prev) ==
    {[Sealed(IdPlusOne(prev.id), 0, 0, prev.hash, Payload) EXCEPT !.hash = <<"z", "z">>]}

MinedOn(chains) ==
    UNION {{Append(c, b) : b \in PeerMined(Last(c))} : c \in chains}
ForgedOn(chains) ==
    UNION {{Append(c, b) : b \in PeerForged(Last(c))} : c \in chains}

Grown(chains, k) ==
    LET grown[i \in 0 .. k] ==
            IF i = 0 THEN chains ELSE grown[i - 1] \cup MinedOn(grown[i - 1])
    IN  grown[k]

\* Chains of peers: built by mining, and those with one forged block.
PeerValidChains == Grown({<<b>> : b \in FirstBlocks}, MaxRemote - 1)
PeerInvalidChains ==
    LET broken == ForgedOn({v \in PeerValidChains : Len(v) < MaxRemote})
    IN  broken \cup MinedOn({v \in broken : Len(v) < MaxRemote})
PeerChains == {<<>>} \cup PeerValidChains \cup PeerInvalidChains

\* Chains of peers that share blocks with the node's chain.
PeerChainsOn(chain) ==
    {SubSeq(chain, 1, k) : k \in 1 .. Len(chain)}
    \cup (IF Len(chain) < MaxRemote THEN MinedOn({chain}) \cup ForgedOn({chain}) ELSE {})

Sources == {"n2", "n3"}

\* The gossip messages the node can receive when its chain is `chain` and
\* the peers hold `chains`.
ChainResponseMessages(chain, chains) ==
    {[source |-> "n2", data |-> ChainResponseJson(c, PEER_ID)] : c \in chains}
    \cup {[source |-> "n2", data |-> ChainResponseJson(c, r)] :
            c \in PeerChainsOn(chain), r \in {PEER_ID, "n2"}}
    \cup {[source |-> "n2",
           data |-> [blocks |-> c, receiver |-> "n3", from_peer_id |-> PEER_ID]] :
            c \in MinedOn({chain})}
LocalChainRequestMessages ==
    {[source |-> src, data |-> LocalChainRequestJson(p)] :
        src \in Sources, p \in {PEER_ID, "n2"}}
BlockMessages(chain) ==
    {[source |-> "n2", data |-> BlockJson(b)] : b \in Candidates(Last(chain))}
UndecodableMessages ==
    {[source |-> "n2", data |-> d] :
        d \in {[id |-> 1, timestamp |-> 0],
               [Sealed(1, 0, 0, GenesisHash, Payload) EXCEPT !.id = -1],
               [receiver |-> PEER_ID]}}
\* A mined block with a from_peer_id field added: an object that decodes
\* as a LocalChainRequest and as a Block.
RequestAndBlockMessages(chain) ==
    {[source |-> "n3",
      data |-> [f \in BlockFields \cup {"from_peer_id"} |->
                  IF f = "from_peer_id" THEN "n2" ELSE b[f]]] :
        b \in PeerMined(Last(chain))}
Inbound(chain, chains) ==
    ChainResponseMessages(chain, chains) \cup LocalChainRequestMessages
    \cup BlockMessages(chain) \cup UndecodableMessages
    \cup RequestAndBlockMessages(chain)

(***************************************************************************)
(* The node.                                                               *)
(***************************************************************************)
VARIABLES
    blocks,      \* app.blocks
    responses,   \* the events sent on response_sender and not yet received
    published,   \* what the last step published on floodsub: <<topic, data>>
    pc,          \* "idle", or "publish" inside handle_create_block
    json,        \* handle_create_block's serialized block, while pc = "publish"
    panicked,    \* the process has aborted
    last,        \* the last event handled: its input and its outcome
    peer_chains, \* the chains the peers hold, which they may send
    call         \* a function applied on its own: its arguments and result

vars == <<blocks, responses, published, pc, json, panicked, last, peer_chains, call>>

NoMsg == [source |-> "", data |-> [none |-> TRUE]]
NoCall == [fn |-> "none"]

\* An event the node handled: the message or the command, the chain and the
\* response queue before it, and the outcome.
Event(op, msg, cmd, result) ==
    [op |-> op, msg |-> msg, cmd |-> cmd, before |-> blocks, queue |-> responses,
     result |-> result]

Init ==
    /\ \E t \in Times : blocks = <<genesis(t)>>
    /\ responses = <<>>
    /\ published = <<>>
    /\ pc = "idle"
    /\ json = <<>>
    /\ panicked = FALSE
    /\ last = [op |-> "new", msg |-> NoMsg, cmd |-> <<>>, before |-> <<>>,
               queue |-> <<>>, result |-> ""]
    /\ peer_chains = PeerChains
    /\ call = NoCall

Ready == pc = "idle" /\ ~panicked

\* The ChainResponse branch with the remote chain taken as it comes.
HandleChainResponse_Adopt(msg) ==
    LET resp == DecodeChainResponse(msg.data)
    IN  /\ IF resp.receiver = PEER_ID
           THEN /\ blocks' = resp.blocks
                /\ last' = Event("ChainResponse", msg, <<>>, "chosen")
           ELSE /\ blocks' = blocks
                /\ last' = Event("ChainResponse", msg, <<>>, "ignored")
        /\ UNCHANGED <<responses, panicked>>

\* The ChainResponse branch without the test of the receiver.
HandleChainResponse_AnyReceiver(msg) ==
    LET resp == DecodeChainResponse(msg.data)
        chosen == choose_chain(blocks, resp.blocks)
    IN  /\ IF chosen.panic
           THEN /\ panicked' = TRUE
                /\ blocks' = blocks
                /\ last' = Event("ChainResponse", msg, <<>>, "panic")
           ELSE /\ panicked' = panicked
                /\ blocks' = chosen.chain
                /\ last' = Event("ChainResponse", msg, <<>>, "chosen")
        /\ responses' = responses

\* inject_event(FloodsubEvent::Message), the ChainResponse branch.
HandleChainResponse(msg) ==
    LET resp == DecodeChainResponse(msg.data)
        chosen == choose_chain(blocks, resp.blocks)
    IN  /\ IF resp.receiver = PEER_ID
           THEN IF chosen.panic
                THEN /\ panicked' = TRUE
                     /\ blocks' = blocks
                     /\ last' = Event("ChainResponse", msg, <<>>, "panic")
                ELSE /\ panicked' = panicked
                     /\ blocks' = chosen.chain
                     /\ last' = Event("ChainResponse", msg, <<>>, "chosen")
           ELSE /\ panicked' = panicked
                /\ blocks' = blocks
                /\ last' = Event("ChainResponse", msg, <<>>, "ignored")
        /\ responses' = responses

\* The LocalChainRequest branch without the test of from_peer_id.
HandleLocalChainRequest_AnyRequest(msg) ==
    /\ Len(responses) < MaxQueue
    /\ responses' = Append(responses, [blocks |-> blocks, receiver |-> msg.source])
    /\ last' = Event("LocalChainRequest", msg, <<>>, "responded")
    /\ UNCHANGED <<blocks, panicked>>

\* The LocalChainRequest branch answering to the peer the request names.
HandleLocalChainRequest_ToNamed(msg) ==
    /\ IF PEER_ID = msg.data.from_peer_id
       THEN /\ Len(responses) < MaxQueue
            /\ responses' = Append(responses,
                                   [blocks |-> blocks,
                                    receiver |-> msg.data.from_peer_id])
            /\ last' = Event("LocalChainRequest", msg, <<>>, "responded")
       ELSE /\ responses' = responses
            /\ last' = Event("LocalChainRequest", msg, <<>>, "ignored")
    /\ UNCHANGED <<blocks, panicked>>

\* inject_event(FloodsubEvent::Message), the LocalChainRequest branch.
HandleLocalChainRequest(msg) ==
    /\ IF PEER_ID = msg.data.from_peer_id
       THEN /\ Len(responses) < MaxQueue
            /\ responses' = Append(responses,
                                   [blocks |-> blocks, receiver |-> msg.source])
            /\ last' = Event("LocalChainRequest", msg, <<>>, "responded")
       ELSE /\ responses' = responses
            /\ last' = Event("LocalChainRequest", msg, <<>>, "ignored")
    /\ UNCHANGED <<blocks, panicked>>

\* inject_event(FloodsubEvent::Message), the Block branch.
HandleBlock(msg) ==
    LET added == try_add_block(blocks, DecodeBlock(msg.data))
    IN  /\ Len(added.blocks) <= MaxChain
        /\ blocks' = added.blocks
        /\ last' = Event("Block", msg, <<>>, added.result)
        /\ UNCHANGED <<responses, panicked>>

\* The decoding with Block tried before LocalChainRequest.
Dispatch_BlockFirst(msg) ==
    IF IsChainResponseJson(msg.data) THEN HandleChainResponse(msg)
    ELSE IF IsBlockJson(msg.data) THEN HandleBlock(msg)
    ELSE IF IsLocalChainRequestJson(msg.data) THEN HandleLocalChainRequest(msg)
    ELSE /\ last' = Event("Undecodable", msg, <<>>, "dropped")
         /\ UNCHANGED <<blocks, responses, panicked>>

\* inject_event(FloodsubEvent::Message): the message is decoded as a
\* ChainResponse, else as a LocalChainRequest, else as a Block, else dropped.
Dispatch(msg) ==
    IF IsChainResponseJson(msg.data) THEN HandleChainResponse(msg)
    ELSE IF IsLocalChainRequestJson(msg.data) THEN HandleLocalChainRequest(msg)
    ELSE IF IsBlockJson(msg.data) THEN HandleBlock(msg)
    ELSE /\ last' = Event("Undecodable", msg, <<>>, "dropped")
         /\ UNCHANGED <<blocks, responses, panicked>>

\* inject_event on a gossip message a peer sent.
InjectEvent ==
    /\ Ready
    /\ \E msg \in Inbound(blocks, peer_chains) : Dispatch(msg)
    /\ published' = <<>>
    /\ UNCHANGED <<pc, json, peer_chains, call>>

strip_prefix(s, prefix) ==
    IF starts_with(s, prefix)
    THEN [some |-> TRUE, rest |-> SubSeq(s, Len(prefix) + 1, Len(s))]
    ELSE [some |-> FALSE, rest |-> <<>>]

\* handle_create_block up to the push of the mined block.
CreateBlock ==
    /\ Ready
    /\ \E cmd \in Commands, now \in Times :
        LET data == strip_prefix(cmd, CreatePrefix)
        IN  IF data.some
            THEN /\ Len(blocks) < MaxChain
                 /\ \E next_block \in mine_next_block(Last(blocks), data.rest, now) :
                      /\ json' = <<BlockJson(next_block)>>
                      /\ blocks' = Append(blocks, next_block)
                 /\ pc' = "publish"
                 /\ last' = Event("create", NoMsg, cmd, "pushed")
            ELSE /\ UNCHANGED <<blocks, json, pc>>
                 /\ last' = Event("create", NoMsg, cmd, "none")
    /\ published' = <<>>
    /\ UNCHANGED <<responses, panicked, peer_chains, call>>

\* The publish of handle_create_block made on the chain topic.
CreateBlockPublish_ChainTopic ==
    /\ pc = "publish"
    /\ ~panicked
    /\ published' = <<[topic |-> CHAIN_TOPIC, data |-> json[1]]>>
    /\ json' = <<>>
    /\ pc' = "idle"
    /\ last' = [last EXCEPT !.result = "published"]
    /\ UNCHANGED <<blocks, responses, panicked, peer_chains, call>>

\* handle_create_block, the publish that ends it.
CreateBlockPublish ==
    /\ pc = "publish"
    /\ ~panicked
    /\ published' = <<[topic |-> BLOCK_TOPIC, data |-> json[1]]>>
    /\ json' = <<>>
    /\ pc' = "idle"
    /\ last' = [last EXCEPT !.result = "published"]
    /\ UNCHANGED <<blocks, responses, panicked, peer_chains, call>>

\* The node loop's response event: a queued ChainResponse is published on
\* the chain topic.
PublishResponse ==
    /\ Ready
    /\ responses # <<>>
    /\ published' = <<[topic |-> CHAIN_TOPIC,
                       data |-> ChainResponseJson(Head(responses).blocks,
                                                  Head(responses).receiver)]>>
    /\ responses' = Tail(responses)
    /\ last' = Event("LocalChainResponse", NoMsg, <<>>, "published")
    /\ UNCHANGED <<blocks, pc, json, panicked, peer_chains, call>>

Next ==
    \/ InjectEvent
    \/ CreateBlock
    \/ CreateBlockPublish
    \/ PublishResponse

Spec == Init /\ [][Next]_vars

(***************************************************************************)
(* The functions applied on their own: `call` holds the arguments, then    *)
(* the result; the node stands still.                                      *)
(***************************************************************************)
NodeAtRest ==
    /\ blocks = <<genesis(0)>>
    /\ responses = <<>>
    /\ published = <<>>
    /\ pc = "idle"
    /\ json = <<>>
    /\ panicked = FALSE
    /\ last = [op |-> "new", msg |-> NoMsg, cmd |-> <<>>, before |-> <<>>,
               queue |-> <<>>, result |-> ""]
    /\ peer_chains = {}

nodeVars == <<blocks, responses, published, pc, json, panicked, last, peer_chains>>

\* The previous blocks can_extend_to is applied to: a genesis block, a block
\* with the same id and hash and other fields, a first block that is no
\* genesis, a mined block, and a block with the last id.
CanExtendPrev ==
    {genesis(0),
     Block(0, 1, 0, GenesisHash, BogusHash, OtherPayload),
     Sealed(U64Max, 0, 0, GenesisHash, Payload)}
    \cup ForeignFirst \cup PeerMined(genesis(0))

InitCanExtend ==
    /\ NodeAtRest
    /\ \E prev \in CanExtendPrev :
         \E next_block \in Candidates(prev) \cup Candidates(genesis(0)) :
            call = [fn |-> "can_extend_to", self |-> prev, next_block |-> next_block,
                    done |-> FALSE, out |-> FALSE]

ApplyCanExtend ==
    /\ call.fn = "can_extend_to"
    /\ ~call.done
    /\ call' = [call EXCEPT !.done = TRUE,
                            !.out = can_extend_to(call.self, call.next_block)]
    /\ UNCHANGED nodeVars

SpecCanExtend == InitCanExtend /\ [][ApplyCanExtend]_vars

\* The digests hash_to_binary_representation is applied to.
SomeBytes == {0, 1, 2, 3, 63, 64, 128, 255}
Digests ==
    {<<>>}
    \cup {<<a>> : a \in 0 .. 255}
    \cup {<<a, b>> : a \in 0 .. 255, b \in SomeBytes}
    \cup {<<a, b, c>> : a \in SomeBytes, b \in SomeBytes, c \in SomeBytes}

InitBinary ==
    /\ NodeAtRest
    /\ \E hash \in Digests :
         call = [fn |-> "hash_to_binary_representation", hash |-> hash,
                 done |-> FALSE, out |-> <<>>]

ApplyBinary ==
    /\ call.fn = "hash_to_binary_representation"
    /\ ~call.done
    /\ call' = [call EXCEPT !.done = TRUE,
                            !.out = hash_to_binary_representation(call.hash)]
    /\ UNCHANGED nodeVars

SpecBinary == InitBinary /\ [][ApplyBinary]_vars

InitChoose ==
    /\ NodeAtRest
    /\ \E local \in PeerChains, remote \in PeerChains :
         call = [fn |-> "choose_chain", local |-> local, remote |-> remote,
                 done |-> FALSE, out |-> [panic |-> FALSE, chain |-> <<>>]]

ApplyChoose ==
    /\ call.fn = "choose_chain"
    /\ ~call.done
    /\ call' = [call EXCEPT !.done = TRUE,
                            !.out = choose_chain(call.local, call.remote)]
    /\ UNCHANGED nodeVars

SpecChoose == InitChoose /\ [][ApplyChoose]_vars

(***************************************************************************)
(* Properties.                                                             *)
(***************************************************************************)
IsPrefix(s, t) == Len(s) <= Len(t) /\ SubSeq(t, 1, Len(s)) = s

\* C1: try_add_block(b) on a non-empty chain returns Ok exactly when
\* can_extend(last block, b) holds; on Ok the chain is the old chain with b
\* appended (one block longer, the earlier blocks unchanged, b last); on the
\* other result, Err, the chain is unchanged.
C1_TryAddBlock ==
    last.op = "Block" =>
        LET b == DecodeBlock(last.msg.data)
        IN  /\ last.before # <<>>
            /\ last.result \in {"Ok", "Err"}
            /\ (last.result = "Ok") <=> can_extend_to(Last(last.before), b)
            /\ last.result = "Ok" =>
                 /\ Len(blocks) = Len(last.before) + 1
                 /\ IsPrefix(last.before, blocks)
                 /\ Last(blocks) = b
            /\ last.result = "Err" => blocks = last.before

C1_Appended ==
    /\ last.op = "Block"
    /\ last.result = "Ok"
    /\ Len(last.before) >= 2

\* C2: choose(local, remote) returns local when both chains are valid and
\* local is at least as long as remote, remote when both are valid and
\* remote is strictly longer, the valid one when exactly one is valid
\* whatever the lengths, and has no result (it panics) exactly when both
\* are invalid.
C2_ForkChoice ==
    (call.fn = "choose_chain" /\ call.done) =>
        LET local == call.local
            remote == call.remote
            lv == is_chain_valid(local)
            rv == is_chain_valid(remote)
        IN  /\ call.out.panic <=> (~lv /\ ~rv)
            /\ (lv /\ rv /\ Len(local) >= Len(remote)) => call.out.chain = local
            /\ (lv /\ rv /\ Len(remote) > Len(local)) => call.out.chain = remote
            /\ (lv /\ ~rv) => call.out.chain = local
            /\ (~lv /\ rv) => call.out.chain = remote

C2_ShorterValidRemote ==
    /\ call.fn = "choose_chain"
    /\ call.done
    /\ ~is_chain_valid(call.local)
    /\ is_chain_valid(call.remote)
    /\ Len(call.remote) < Len(call.local)
    /\ call.out = [panic |-> FALSE, chain |-> call.remote]

\* C3: can_extend(prev, next) is true exactly when next.id is prev.id + 1
\* (the u64 sum), next.previous_hash is prev.hash, next.hash decodes as
\* hexadecimal to bytes that meet the difficulty, and the lowercase hex of
\* the content hash of next's fields is next.hash; it is false when
\* next.hash is no valid hexadecimal; and of prev only id and hash count.
C3_CanExtend ==
    (call.fn = "can_extend_to" /\ call.done) =>
        LET prev == call.self
            next_block == call.next_block
            decoded == HexDecode(next_block.hash)
        IN  /\ call.out <=>
                 /\ next_block.id = IdPlusOne(prev.id)
                 /\ next_block.previous_hash = prev.hash
                 /\ decoded.ok
                 /\ starts_with(hash_to_binary_representation(decoded.bytes),
                                DIFFICULTY_PREFIX)
                 /\ HexEncode(BlockHash(next_block)) = next_block.hash
            /\ ~decoded.ok => ~call.out
            /\ \A other \in CanExtendPrev :
                 (other.id = prev.id /\ other.hash = prev.hash)
                    => can_extend_to(other, next_block) = call.out

C3_Extends ==
    /\ call.fn = "can_extend_to"
    /\ call.done
    /\ call.out
    /\ call.self.nonce # GenesisNonce

\* C4: the binary representation of a digest h starts with "00" exactly
\* when the two most significant bits of h[0] are zero.
C4_TwoLeadingBits ==
    (call.fn = "hash_to_binary_representation" /\ call.done /\ call.hash # <<>>) =>
        (starts_with(call.out, DIFFICULTY_PREFIX) <=> call.hash[1] < 64)

\* C5: a peer answers a LocalChainRequest with a ChainResponse exactly when
\* the request's from_peer_id is that peer's own identity; a request that
\* carries its sender's identity leaves the peer's queue and chain as they
\* were.
C5_AnswersRequestsNamingIt ==
    last.op = "LocalChainRequest" =>
        LET req == last.msg.data
        IN  /\ (last.result = "responded") <=> (req.from_peer_id = PEER_ID)
            /\ last.result = "responded" => Len(responses) = Len(last.queue) + 1
            /\ req.from_peer_id = last.msg.source =>
                 /\ last.result = "ignored"
                 /\ responses = last.queue
                 /\ blocks = last.before

C5_SenderNamesItself ==
    /\ last.op = "LocalChainRequest"
    /\ last.msg.data.from_peer_id = last.msg.source
    /\ last.result = "ignored"

\* C5 as stated: a peer that receives a LocalChainRequest carrying its
\* sender's own identity answers with its chain, addressed to the sender.
C5_PeersAnswerSender ==
    (last.op = "LocalChainRequest" /\ last.msg.data.from_peer_id = last.msg.source) =>
        /\ responses # <<>>
        /\ Last(responses) = [blocks |-> last.before, receiver |-> last.msg.source]

\* C6: a LocalChainRequest whose from_peer_id is the node's own identity
\* queues exactly one ChainResponse, its blocks the node's whole chain and
\* its receiver the source of the message, and leaves the chain unchanged.
C6_QueuesOneResponse ==
    (last.op = "LocalChainRequest" /\ last.msg.data.from_peer_id = PEER_ID) =>
        /\ responses = Append(last.queue, [blocks |-> last.before,
                                           receiver |-> last.msg.source])
        /\ blocks = last.before

C6_WholeChainQueued ==
    /\ last.op = "LocalChainRequest"
    /\ last.msg.data.from_peer_id = PEER_ID
    /\ last.result = "responded"
    /\ Len(last.before) >= 2
    /\ Last(responses).blocks = blocks

\* C7: a ChainResponse whose receiver is the node's identity sets the chain
\* to choose(local chain, its blocks): a valid and strictly longer remote
\* chain replaces a valid local chain, and a valid remote chain that is no
\* longer leaves a valid local chain in place.
C7_ChainResponseChooses ==
    (last.op = "ChainResponse" /\ last.msg.data.receiver = PEER_ID) =>
        LET local == last.before
            remote == DecodeChainResponse(last.msg.data).blocks
            chosen == choose_chain(local, remote)
        IN  /\ (last.result = "panic") <=> chosen.panic
            /\ ~chosen.panic => blocks = chosen.chain
            /\ (is_chain_valid(local) /\ is_chain_valid(remote)) =>
                 blocks = IF Len(remote) > Len(local) THEN remote ELSE local

C7_LongerRemoteAdopted ==
    /\ last.op = "ChainResponse"
    /\ last.msg.data.receiver = PEER_ID
    /\ Len(last.before) >= 2
    /\ blocks # last.before
    /\ blocks = last.msg.data.blocks

\* C8: a ChainResponse whose receiver is another identity changes nothing:
\* the chain and the response queue stay, fork choice is not run, and the
\* message is not taken for a LocalChainRequest or a Block afterwards.
C8_OtherReceiverIgnored ==
    (last.op = "ChainResponse" /\ last.msg.data.receiver # PEER_ID) =>
        /\ last.result = "ignored"
        /\ blocks = last.before
        /\ responses = last.queue
        /\ published = <<>>
        /\ ~panicked

C8_LooksLikeRequestToo ==
    /\ last.op = "ChainResponse"
    /\ last.msg.data.receiver # PEER_ID
    /\ "from_peer_id" \in DOMAIN last.msg.data
    /\ last.msg.data.from_peer_id = PEER_ID
    /\ is_chain_valid(last.msg.data.blocks)
    /\ Len(last.msg.data.blocks) > Len(blocks)

\* The three ways a step may leave the chain.
ChainStep ==
    \/ blocks' = blocks
    \/ /\ Len(blocks') = Len(blocks) + 1
       /\ IsPrefix(blocks, blocks')
       /\ can_extend_to(Last(blocks), Last(blocks'))
    \/ /\ is_chain_valid(blocks')
       /\ Len(blocks') > Len(blocks)

\* C9: across every step the chain afterwards is the chain before, or the
\* chain before with one block appended that passed validation, or a valid
\* chain strictly longer than the chain before that replaces it.
C9_ChainSteps == [][ChainStep]_vars

C9_Replaced ==
    /\ last.op = "ChainResponse"
    /\ last.result = "chosen"
    /\ Len(blocks) > Len(last.before)
    /\ blocks[1] # last.before[1]

\* C10: the chain always starts with the genesis block, and the block at
\* position i (from zero) has id i.
C10_GenesisFirstIdsInOrder ==
    /\ blocks # <<>>
    /\ [blocks[1] EXCEPT !.timestamp = 0] = genesis(0)
    /\ \A i \in 1 .. Len(blocks) : blocks[i].id = i - 1

(***************************************************************************)
(* is_chain_valid applied on its own.                                      *)
(***************************************************************************)
\* A block that no miner made: its hash is no hexadecimal text.
UnminedBlock == Block(5, 0, 0, <<"z">>, BogusHash, Payload)

\* The blocks of the chains is_chain_valid is applied to.
ValidityBlocks ==
    FirstBlocks \cup {UnminedBlock}
    \cup PeerMined(genesis(0)) \cup PeerForged(genesis(0)) \cup PeerMined(UnminedBlock)

SeqsUpTo(S, n) == UNION {[1 .. k -> S] : k \in 0 .. n}

InitValid ==
    /\ NodeAtRest
    /\ \E chain \in SeqsUpTo(ValidityBlocks, MaxRemote) \cup PeerChains :
         call = [fn |-> "is_chain_valid", chain |-> chain, done |-> FALSE, out |-> FALSE]

ApplyValid ==
    /\ call.fn = "is_chain_valid"
    /\ ~call.done
    /\ call' = [call EXCEPT !.done = TRUE, !.out = is_chain_valid(call.chain)]
    /\ UNCHANGED nodeVars

SpecValid == InitValid /\ [][ApplyValid]_vars

\* C11: is_valid(c) holds exactly when can_extend holds for every adjacent
\* pair of c; a chain of one block is valid; and the first block is not
\* itself checked: it may be a block no miner made, and changing its
\* fields other than id and hash gives the same result.
C11_ValidIffPairsExtend ==
    (call.fn = "is_chain_valid" /\ call.done) =>
        LET c == call.chain
        IN  /\ call.out <=>
                 \A i \in 1 .. Len(c) - 1 : can_extend_to(c[i], c[i + 1])
            /\ Len(c) = 1 => call.out
            /\ c # <<>> =>
                 is_chain_valid([c EXCEPT ![1] = [c[1] EXCEPT
                                     !.previous_hash = BogusHash,
                                     !.nonce = @ + 1,
                                     !.timestamp = @ + 1,
                                     !.data = OtherPayload]]) = call.out

C11_UnminedFirst ==
    /\ call.fn = "is_chain_valid"
    /\ call.done
    /\ call.out
    /\ Len(call.chain) >= 2
    /\ call.chain[1] = UnminedBlock

(***************************************************************************)
(* The miner applied on its own.                                           *)
(***************************************************************************)
\* The payloads mined: the texts of up to two of three characters.
MinePayloads == SeqsUpTo({"a", "b", " "}, 2)

InitMine ==
    /\ NodeAtRest
    /\ \E prev \in CanExtendPrev \cup {UnminedBlock}, data \in MinePayloads,
          timestamp \in 0 .. MaxTime + 1 :
         call = [fn |-> "mine_next_block", self |-> prev, data |-> data,
                 timestamp |-> timestamp, done |-> FALSE, out |-> prev]

ApplyMine ==
    /\ call.fn = "mine_next_block"
    /\ ~call.done
    /\ \E b \in mine_next_block(call.self, call.data, call.timestamp) :
         call' = [call EXCEPT !.done = TRUE, !.out = b]
    /\ UNCHANGED nodeVars

SpecMine == InitMine /\ [][ApplyMine]_vars

\* C12: a block b returned by the miner has a hash whose bytes meet the
\* difficulty and which is the hex encoding of the content hash of b's own
\* fields with the returned nonce; it carries the id after prev's, prev's
\* hash and the payload; and can_extend(prev, b) holds.
C12_MinedBlockExtends ==
    (call.fn = "mine_next_block" /\ call.done) =>
        LET b == call.out
            decoded == HexDecode(b.hash)
        IN  /\ decoded.ok
            /\ starts_with(hash_to_binary_representation(decoded.bytes),
                           DIFFICULTY_PREFIX)
            /\ b.hash = HexEncode(calculate_hash(b.id, b.timestamp, b.previous_hash,
                                                 b.data, b.nonce))
            /\ b.id = IdPlusOne(call.self.id)
            /\ b.previous_hash = call.self.hash
            /\ b.data = call.data
            /\ b.timestamp = call.timestamp
            /\ can_extend_to(call.self, b)

C12_MinedAfterRetry ==
    /\ call.fn = "mine_next_block"
    /\ call.done
    /\ call.out.nonce # 0
    /\ call.self.id # 0

\* C13: the command `create b <data>` takes the tail of the chain, mines
\* one block with the id after the tail's, the tail's hash and the payload,
\* appends it (the chain grows by exactly one), and then publishes exactly
\* one message, on the block topic, that carries this block; when the
\* block is appended nothing is published yet, and nothing is published on
\* the chain topic.
C13_CreateAppendsThenPublishes ==
    (last.op = "create" /\ starts_with(last.cmd, CreatePrefix)) =>
        LET tail == Last(last.before)
            b == Last(blocks)
        IN  /\ last.result \in {"pushed", "published"}
            /\ blocks = Append(last.before, b)
            /\ b.id = IdPlusOne(tail.id)
            /\ b.previous_hash = tail.hash
            /\ b.data = strip_prefix(last.cmd, CreatePrefix).rest
            /\ can_extend_to(tail, b)
            /\ responses = last.queue
            /\ last.result = "pushed" =>
                 /\ pc = "publish"
                 /\ published = <<>>
            /\ last.result = "published" =>
                 /\ pc = "idle"
                 /\ published = <<[topic |-> BLOCK_TOPIC, data |-> BlockJson(b)]>>

C13_Broadcast ==
    /\ last.op = "create"
    /\ last.result = "published"
    /\ Len(last.before) >= 2
    /\ published # <<>>
    /\ published[1].topic = BLOCK_TOPIC

\* C14: a Block message that fails try_add_block leaves the chain as it
\* was and emits nothing: no response is queued, nothing is published (no
\* chain request, no re-broadcast), no block is taken off the chain, and
\* the node keeps nothing of the block to consider it again.
C14_RejectedBlockDropped ==
    (last.op = "Block" /\ last.result = "Err") =>
        /\ ~can_extend_to(Last(last.before), DecodeBlock(last.msg.data))
        /\ blocks = last.before
        /\ responses = last.queue
        /\ published = <<>>
        /\ json = <<>>
        /\ pc = "idle"
        /\ ~panicked

C14_HeldIdRejected ==
    /\ last.op = "Block"
    /\ last.result = "Err"
    /\ Len(last.before) >= 2
    /\ last.msg.data.id = Last(blocks).id
    /\ HexEncode(BlockHash(DecodeBlock(last.msg.data))) = last.msg.data.hash

(***************************************************************************)
(* The JSON text of a block: serde_json::to_string writes it, and          *)
(* serde_json::from_slice reads an object of texts and numbers back.       *)
(***************************************************************************)
Quote == "\""
Backslash == "\\"

\* The decimal digits of a natural number.
DecimalDigits(n) ==
    LET digits[m \in 0 .. n] ==
            IF m < 10 THEN <<HexLower[m + 1]>>
            ELSE digits[m \div 10] \o <<HexLower[(m % 10) + 1]>>
    IN  digits[n]

\* A u64 or i64 as JSON.
JsonNumber(n) == IF n < 0 THEN <<"-">> \o DecimalDigits(0 - n) ELSE DecimalDigits(n)

\* A String as JSON without the escapes.
JsonString_Raw(s) == <<Quote>> \o s \o <<Quote>>

\* A String as JSON: in quotes, quote and backslash escaped.
JsonString(s) ==
    LET escaped[i \in 0 .. Len(s)] ==
            IF i = 0 THEN <<>>
            ELSE escaped[i - 1]
                 \o (IF s[i] \in {Quote, Backslash} THEN <<Backslash, s[i]>>
                     ELSE <<s[i]>>)
    IN  <<Quote>> \o escaped[Len(s)] \o <<Quote>>

\* The characters of the field names.
FieldChars(f) ==
    CASE f = "id" -> <<"i", "d">>
      [] f = "timestamp" -> <<"t", "i", "m", "e", "s", "t", "a", "m", "p">>
      [] f = "nonce" -> <<"n", "o", "n", "c", "e">>
      [] f = "hash" -> <<"h", "a", "s", "h">>
      [] f = "previous_hash" ->
            <<"p", "r", "e", "v", "i", "o", "u", "s", "_", "h", "a", "s", "h">>
      [] f = "data" -> <<"d", "a", "t", "a">>
      [] f = "receiver" -> <<"r", "e", "c", "e", "i", "v", "e", "r">>
      [] f = "from_peer_id" ->
            <<"f", "r", "o", "m", "_", "p", "e", "e", "r", "_", "i", "d">>

FieldNames == BlockFields \cup {"receiver", "from_peer_id"}

\* serde_json::to_string(&block): the fields in the order of the struct.
to_string(block) ==
    <<"{">>
    \o JsonString(FieldChars("id")) \o <<":">> \o JsonNumber(block.id) \o <<",">>
    \o JsonString(FieldChars("timestamp")) \o <<":">> \o JsonNumber(block.timestamp)
    \o <<",">>
    \o JsonString(FieldChars("nonce")) \o <<":">> \o JsonNumber(block.nonce) \o <<",">>
    \o JsonString(FieldChars("hash")) \o <<":">> \o JsonString(block.hash) \o <<",">>
    \o JsonString(FieldChars("previous_hash")) \o <<":">>
    \o JsonString(block.previous_hash) \o <<",">>
    \o JsonString(FieldChars("data")) \o <<":">> \o JsonString(block.data)
    \o <<"}">>

\* A JSON string read from its opening quote at position i of t.
ParseString(t, i) ==
    LET failed == [ok |-> FALSE, val |-> <<>>, next |-> i]
        scan[j \in 1 .. Len(t) + 2] ==
            IF j > Len(t) THEN failed
            ELSE IF t[j] = Quote THEN [ok |-> TRUE, val |-> <<>>, next |-> j + 1]
            ELSE IF t[j] = Backslash
            THEN IF j + 1 <= Len(t) /\ t[j + 1] \in {Quote, Backslash}
                 THEN [scan[j + 2] EXCEPT !.val = <<t[j + 1]>> \o @]
                 ELSE failed
            ELSE [scan[j + 1] EXCEPT !.val = <<t[j]>> \o @]
    IN  IF i <= Len(t) /\ t[i] = Quote THEN scan[i + 1] ELSE failed

IsDigit(c) == HexVal(c) \in 0 .. 9

\* A JSON integer read at position i of t.
ParseNumber(t, i) ==
    LET negative == i <= Len(t) /\ t[i] = "-"
        start == IF negative THEN i + 1 ELSE i
        end[j \in 1 .. Len(t) + 1] ==
            IF j <= Len(t) /\ IsDigit(t[j]) THEN end[j + 1] ELSE j
        stop == IF start <= Len(t) THEN end[start] ELSE start
        value[j \in start - 1 .. Len(t)] ==
            IF j = start - 1 THEN 0 ELSE 10 * value[j - 1] + HexVal(t[j])
    IN  IF stop = start THEN [ok |-> FALSE, val |-> 0, next |-> i]
        ELSE [ok |-> TRUE,
              val |-> IF negative THEN 0 - value[stop - 1] ELSE value[stop - 1],
              next |-> stop]

\* The members of a JSON object read from position 2 of t to its end: the
\* pairs of a key and a value.
ParseMembers(t) ==
    LET failed == [ok |-> FALSE, pairs |-> <<>>]
        members[j \in 1 .. Len(t) + 1] ==
            LET key == ParseString(t, j)
                at == key.next + 1
                val == IF at <= Len(t) /\ t[at] = Quote
                       THEN ParseString(t, at) ELSE ParseNumber(t, at)
            IN  IF ~key.ok \/ key.next > Len(t) \/ t[key.next] # ":" THEN failed
                ELSE IF ~val.ok \/ val.next > Len(t) THEN failed
                ELSE IF t[val.next] = "}"
                THEN IF val.next = Len(t)
                     THEN [ok |-> TRUE, pairs |-> <<<<key.val, val.val>>>>]
                     ELSE failed
                ELSE IF t[val.next] = ","
                THEN [members[val.next + 1] EXCEPT
                         !.pairs = <<<<key.val, val.val>>>> \o @]
                ELSE failed
    IN  IF Len(t) >= 2 /\ t[1] = "{" THEN members[2] ELSE failed

\* The field a key names, "" for a key no struct has.
KeyName(chars) ==
    IF \E f \in FieldNames : FieldChars(f) = chars
    THEN CHOOSE f \in FieldNames : FieldChars(f) = chars
    ELSE ""

\* serde_json::from_slice, up to the choice of the struct: the object read.
from_slice(t) ==
    LET parsed == ParseMembers(t)
        names == {KeyName(parsed.pairs[i][1]) : i \in 1 .. Len(parsed.pairs)}
    IN  IF parsed.ok
        THEN [ok |-> TRUE,
              value |-> [n \in names |->
                           parsed.pairs[CHOOSE i \in 1 .. Len(parsed.pairs) :
                                           KeyName(parsed.pairs[i][1]) = n][2]]]
        ELSE [ok |-> FALSE, value |-> [none |-> TRUE]]

(***************************************************************************)
(* A block from its author to a peer: the author holds call.author, the    *)
(* peer is the node.                                                       *)
(***************************************************************************)
\* The payloads and clock readings of the author.
AuthorPayloads == {<<>>, Payload, <<Quote>>, <<"a", Backslash, Quote, "b">>}
AuthorTimes == {0, 7, 10, 1234}

InitRoundTrip ==
    /\ \E chain \in {c \in PeerValidChains : Len(c) < MaxChain} :
         /\ blocks = chain
         /\ \E data \in AuthorPayloads, timestamp \in AuthorTimes :
              call = [fn |-> "round_trip", stage |-> "start", author |-> chain,
                      data |-> data, timestamp |-> timestamp,
                      block |-> Last(chain), wire |-> <<>>]
    /\ responses = <<>>
    /\ published = <<>>
    /\ pc = "idle"
    /\ json = <<>>
    /\ panicked = FALSE
    /\ last = [op |-> "new", msg |-> NoMsg, cmd |-> <<>>, before |-> <<>>,
               queue |-> <<>>, result |-> ""]
    /\ peer_chains = {}

\* handle_create_block at the author: the block is mined, pushed and its
\* JSON text is published.
AuthorCreates ==
    /\ call.fn = "round_trip"
    /\ call.stage = "start"
    /\ \E b \in mine_next_block(Last(call.author), call.data, call.timestamp) :
         call' = [call EXCEPT !.stage = "sent",
                              !.author = Append(call.author, b),
                              !.block = b,
                              !.wire = to_string(BlockJson(b))]
    /\ UNCHANGED nodeVars

\* inject_event at the peer on the text the author published.
PeerReceives ==
    /\ call.fn = "round_trip"
    /\ call.stage = "sent"
    /\ Ready
    /\ LET parsed == from_slice(call.wire)
           msg == [source |-> "n2", data |-> parsed.value]
       IN  Dispatch(msg)
    /\ published' = <<>>
    /\ call' = [call EXCEPT !.stage = "delivered"]
    /\ UNCHANGED <<pc, json, peer_chains>>

NextRoundTrip ==
    \/ AuthorCreates
    \/ PeerReceives

SpecRoundTrip == InitRoundTrip /\ [][NextRoundTrip]_vars

\* C15: the JSON text of a block an author made, parsed by a peer, gives a
\* block equal to it field for field, which still extends its predecessor;
\* and a peer whose chain was the author's chain before the block, handling
\* the Block message first, adds the block and holds the author's chain.
C15_RoundTrip ==
    (call.fn = "round_trip" /\ call.stage # "start") =>
        LET parsed == from_slice(call.wire)
        IN  /\ parsed.ok
            /\ IsBlockJson(parsed.value)
            /\ DecodeBlock(parsed.value) = call.block
            /\ call.stage = "delivered" =>
                 /\ last.op = "Block"
                 /\ last.result = "Ok"
                 /\ can_extend_to(Last(last.before), DecodeBlock(last.msg.data))
                 /\ blocks = call.author

C15_EscapedPayloadDelivered ==
    /\ call.fn = "round_trip"
    /\ call.stage = "delivered"
    /\ Quote \in {call.data[i] : i \in 1 .. Len(call.data)}
    /\ call.timestamp >= 10
    /\ Len(blocks) >= 3

\* The handler the decoding order gives a message with data d.
FirstSchema(d) ==
    IF IsChainResponseJson(d) THEN "ChainResponse"
    ELSE IF IsLocalChainRequestJson(d) THEN "LocalChainRequest"
    ELSE IF IsBlockJson(d) THEN "Block"
    ELSE "Undecodable"

\* C16: a gossip message is handled by the first of ChainResponse,
\* LocalChainRequest and Block that decodes it and by no other; what a node
\* serializes as one of the three goes to the handler of that kind; and a
\* message none of them decodes changes no state and emits nothing.
C16_FirstSchemaDecides ==
    last.op \in {"ChainResponse", "LocalChainRequest", "Block", "Undecodable"} =>
        LET d == last.msg.data
        IN  /\ last.op = FirstSchema(d)
            /\ last.op = "ChainResponse" => responses = last.queue
            /\ last.op = "LocalChainRequest" => blocks = last.before
            /\ last.op = "Block" => responses = last.queue
            /\ last.op = "Undecodable" =>
                 /\ blocks = last.before
                 /\ responses = last.queue
                 /\ published = <<>>
                 /\ ~panicked
            /\ (DOMAIN d = {"blocks", "receiver"} /\ IsChainResponseJson(d)) =>
                 last.op = "ChainResponse"
            /\ DOMAIN d = {"from_peer_id"} => last.op = "LocalChainRequest"
            /\ (DOMAIN d = BlockFields /\ IsBlockJson(d)) => last.op = "Block"

C16_RequestThatIsABlock ==
    /\ last.op = "LocalChainRequest"
    /\ IsBlockJson(last.msg.data)
    /\ can_extend_to(Last(blocks), DecodeBlock(last.msg.data))
    /\ blocks = last.before

\* C17: in every reachable state of the node the chain satisfies is_valid;
\* so the ChainResponse handler never reaches the abort of choose, and
\* every ChainResponse the node has queued carries a valid chain.
C17_ChainAlwaysValid ==
    /\ is_chain_valid(blocks)
    /\ ~panicked
    /\ last.result # "panic"
    /\ \A i \in 1 .. Len(responses) : is_chain_valid(responses[i].blocks)

C17_InvalidRemoteRefused ==
    /\ last.op = "ChainResponse"
    /\ last.msg.data.receiver = PEER_ID
    /\ ~is_chain_valid(last.msg.data.blocks)
    /\ Len(last.msg.data.blocks) > Len(last.before)
    /\ last.result = "chosen"
    /\ blocks = last.before

\* C18: the chain is never empty, also after a ChainResponse addressed to
\* the node with no block or one block, so the chain always has a tail.
C18_ChainNeverEmpty ==
    /\ Len(blocks) >= 1
    /\ last.op # "new" => Len(last.before) >= 1

C18_EmptyRemoteHandled ==
    /\ last.op = "ChainResponse"
    /\ last.msg.data.receiver = PEER_ID
    /\ last.msg.data.blocks = <<>>
    /\ last.result = "chosen"

\* C19: block ids never wrap: along the chain a node holds every id is the
\* id before it plus one as integers, so no block extends a block that has
\* the largest id.
C19_IdsNeverWrap ==
    \A i \in 2 .. Len(blocks) :
        /\ blocks[i].id = blocks[i - 1].id + 1
        /\ blocks[i - 1].id # U64Max

====
